---- MODULE Spec2Model ----
(***************************************************************************)
(* A model of the firebase-all client library:                             *)
(*   - FirebaseInit, the process-wide singleton that builds the Firebase   *)
(*     handles (src/src/services/firebaseInit.ts);                         *)
(*   - FirestoreService and FirestoreServiceInstance, the generic and the  *)
(*     collection-scoped document clients (src/unnamed/part_001,           *)
(*     src/src/services/firestoreServiceInstance.ts);                      *)
(*   - FirebaseAuthService, the session manager                            *)
(*     (src/src/services/firestoreServiceInstance.ts).                     *)
(* JavaScript runs one callback at a time: a synchronous method is one     *)
(* action, an async method is one action per backend call it awaits.       *)
(***************************************************************************)
EXTENDS Naturals, Sequences, FiniteSets, TLC

VARIABLES
    \* ---- FirebaseInit ----
    instance,     \* the static field FirebaseInit.instance (oid 0: not set)
    created,      \* how many times each handle factory has returned a handle
    nextOid,      \* identities given to FirebaseInit objects so far
    held,         \* the FirebaseInit objects callers have been handed
    handedOut,    \* the clients callers have been handed
    lcLog,        \* the getInstance / initializeFirebaseLib calls so far, in
                  \* order, each with its arguments and its outcome
    \* ---- FirestoreService / FirestoreServiceInstance ----
    store,        \* the remote store: collection -> (document id -> fields)
    genCount,     \* identifiers doc(collectionRef) has generated so far
    inflight,     \* per caller task: the update() suspended between its
                  \* updateDoc and its getDoc, if any
    last,         \* what the latest step delivered to its caller
    ops,          \* document-client calls started so far
    hist,         \* what the successful create and delete calls did so far
    \* ---- FirebaseAuthService ----
    currentUser,  \* auth.currentUser ("": null)
    authLast,     \* what the latest FirebaseAuthService call delivered
    authOps,      \* FirebaseAuthService calls so far
    backendCalls, \* calls issued to the auth backend so far
    listeners,    \* per callback: whether it was passed to onAuthStateChange
                  \* and whether its unsubscribe function has been called
    delivered     \* per callback: the users it has been called with, in order

lifecycleVars == <<instance, created, nextOid, held, handedOut, lcLog>>

storeVars == <<store, genCount, inflight, last, ops, hist>>

authVars ==
    <<currentUser, authLast, authOps, backendCalls, listeners, delivered>>

vars == <<lifecycleVars, storeVars, authVars>>

-----------------------------------------------------------------------------
(* Bounds *)

\* getInstance / initializeFirebaseLib calls explored
MaxCalls == 3

\* document-client calls explored
MaxOps == 3

\* FirebaseAuthService calls explored
MaxAuthOps == 2

-----------------------------------------------------------------------------
(* FirebaseInit *)

\* The configuration objects callers pass; NoConfig is the omitted argument.
NoConfig == "undefined"
Configs == {"configA", "configB"}

\* Collection names callers ask a scoped client for.
Collections == {"users", "posts"}

\* The unset static field: `private static instance: FirebaseInit` before
\* any assignment.
NoInstance ==
    [oid |-> 0, app |-> 0, db |-> 0, auth |-> 0, analytics |-> 0,
     firestoreService |-> 0, authService |-> 0]

\* The constructor's four factory calls, in order; a call that throws ends
\* the constructor. FailAt = 0: none throws.
ConstructorSteps == <<"app", "db", "auth", "analytics">>
FailPoints == 0..Len(ConstructorSteps)

\* Does the constructor's factory call number i return (failAt names the
\* call that throws)?
StepRuns(i, failAt) == failAt = 0 \/ i < failAt

\* The handle counters after a constructor run that throws at failAt.
CreatedAfter(failAt) ==
    [h \in DOMAIN created |->
        IF \E i \in 1..Len(ConstructorSteps) :
              ConstructorSteps[i] = h /\ StepRuns(i, failAt)
        THEN created[h] + 1 ELSE created[h]]

\* new FirebaseInit(firebaseConfig) when no factory call throws: every field
\* holds the handle its factory just returned; the two services are built on
\* this.db and this.auth.
Constructed(oid) ==
    LET c == CreatedAfter(0) IN
    [oid |-> oid, app |-> c.app, db |-> c.db, auth |-> c.auth,
     analytics |-> c.analytics,
     firestoreService |-> c.db, authService |-> c.auth]

\* One entry of the call log: what the call was given, which factory call of
\* the constructor threw if the constructor ran (0: none, or it did not run)
\* and what the call produced.
LcEntry(op, cfg, failAt, status, oid, message) ==
    [op |-> op, cfg |-> cfg, failAt |-> failAt, status |-> status,
     oid |-> oid, message |-> message]

\* throw new Error('Firebase config is required for initialization')
ThrowConfigRequired(op, cfg, failAt) ==
    /\ lcLog' = Append(lcLog, LcEntry(op, cfg, 0, "error", 0,
                    "Firebase config is required for initialization"))
    /\ UNCHANGED <<instance, created, nextOid, held>>

\* FirebaseInit.instance = new FirebaseInit(firebaseConfig); return it.
\* A factory's exception leaves the constructor and getInstance before the
\* static field is assigned.
ConstructAndReturn(op, cfg, failAt) ==
    /\ nextOid' = nextOid + 1
    /\ created' = CreatedAfter(failAt)
    /\ IF failAt = 0
       THEN /\ instance' = Constructed(nextOid + 1)
            /\ held' = held \cup {instance'}
            /\ lcLog' = Append(lcLog, LcEntry(op, cfg, failAt, "ok",
                                              instance'.oid, ""))
       ELSE /\ lcLog' = Append(lcLog, LcEntry(op, cfg, failAt, "error", 0,
                                              ConstructorSteps[failAt]))
            /\ UNCHANGED <<instance, held>>

\* return FirebaseInit.instance
ReturnExisting(op, cfg, failAt) ==
    /\ lcLog' = Append(lcLog, LcEntry(op, cfg, 0, "ok", instance.oid, ""))
    /\ held' = held \cup {instance}
    /\ UNCHANGED <<instance, created, nextOid>>

\* getInstance without the `!FirebaseInit.instance` test: constructs on
\* every call that carries a configuration.
GetInstanceUnguarded(op, cfg, failAt) ==
    /\ Len(lcLog) < MaxCalls
    /\ IF cfg = NoConfig
       THEN ThrowConfigRequired(op, cfg, failAt)
       ELSE ConstructAndReturn(op, cfg, failAt)
    /\ UNCHANGED <<handedOut, storeVars, authVars>>

\* getInstance without the `!firebaseConfig` test: a missing configuration
\* reaches the constructor.
GetInstanceConfigOptional(op, cfg, failAt) ==
    /\ Len(lcLog) < MaxCalls
    /\ IF instance.oid = 0
       THEN ConstructAndReturn(op, cfg, failAt)
       ELSE ReturnExisting(op, cfg, failAt)
    /\ UNCHANGED <<handedOut, storeVars, authVars>>

\* FirebaseInit.getInstance(firebaseConfig?)
GetInstanceBody(op, cfg, failAt) ==
    /\ Len(lcLog) < MaxCalls
    /\ IF instance.oid = 0
       THEN IF cfg = NoConfig
            THEN ThrowConfigRequired(op, cfg, failAt)
            ELSE ConstructAndReturn(op, cfg, failAt)
       ELSE ReturnExisting(op, cfg, failAt)
    /\ UNCHANGED <<handedOut, storeVars, authVars>>

GetInstance ==
    \E cfg \in Configs \cup {NoConfig}, failAt \in FailPoints :
        GetInstanceBody("getInstance", cfg, failAt)

\* export const initializeFirebaseLib = (config) => FirebaseInit.getInstance(config)
InitializeFirebaseLib ==
    \E cfg \in Configs, failAt \in FailPoints :
        GetInstanceBody("initializeFirebaseLib", cfg, failAt)

\* getFirestoreService(): the FirestoreService built by the constructor
GetFirestoreService ==
    \E i \in held :
        /\ handedOut' = handedOut \cup
              {[kind |-> "FirestoreService", of |-> i.oid,
                handle |-> i.firestoreService, collectionName |-> ""]}
        /\ UNCHANGED <<instance, created, nextOid, held, lcLog, storeVars, authVars>>

\* getFirestoreServiceInstance(collectionName): a new scoped client on this.db
GetFirestoreServiceInstance ==
    \E i \in held, c \in Collections :
        /\ handedOut' = handedOut \cup
              {[kind |-> "FirestoreServiceInstance", of |-> i.oid,
                handle |-> i.db, collectionName |-> c]}
        /\ UNCHANGED <<instance, created, nextOid, held, lcLog, storeVars, authVars>>

\* getAuthService(): the FirebaseAuthService built by the constructor
GetAuthService ==
    \E i \in held :
        /\ handedOut' = handedOut \cup
              {[kind |-> "FirebaseAuthService", of |-> i.oid,
                handle |-> i.authService, collectionName |-> ""]}
        /\ UNCHANGED <<instance, created, nextOid, held, lcLog, storeVars, authVars>>

LifecycleInit ==
    /\ instance = NoInstance
    /\ created = [app |-> 0, db |-> 0, auth |-> 0, analytics |-> 0]
    /\ nextOid = 0
    /\ held = {}
    /\ handedOut = {}
    /\ lcLog = <<>>

LifecycleNext ==
    \/ GetInstance
    \/ InitializeFirebaseLib
    \/ GetFirestoreService
    \/ GetFirestoreServiceInstance
    \/ GetAuthService

-----------------------------------------------------------------------------
(* Documents and the remote store *)

\* A document's fields are a function from field names to values. The
\* payloads callers pass: a full record, a partial one that changes a field
\* of the first, and one that carries a field named "id" of its own.
Records ==
    {[a |-> "1", b |-> "2"], [b |-> "3"], [id |-> "k1", a |-> "1"]}

EmptyDoc == [f \in {} |-> ""]

\* Caller-chosen document identifiers. NoId is the customId argument left
\* out, or passed as the empty string: both are falsy in `customId ? ... : ...`.
CustomIds == {"k1"}
NoId == ""

\* The n-th identifier doc(collectionRef) generates. Firestore draws 20
\* random characters; the model gives each call an identifier never given
\* before and never chosen by a caller.
AutoId(n) == "auto" \o ToString(n)

\* Identifiers a caller can name: its own, and the generated ones it has
\* been given.
KnownIds == CustomIds \cup {AutoId(n) : n \in 1..genCount}

\* Backend faults (network, permission): any backend call may reject.
NoFault == "none"
Faults == {"unavailable"}

\* { ...older, ...newer }: object spread, and Firestore's field-level merge.
Spread(older, newer) ==
    [f \in DOMAIN older \cup DOMAIN newer |->
        IF f \in DOMAIN newer THEN newer[f] ELSE older[f]]

\* setDoc called with { merge: true }: the fields already stored survive.
SetDocMerging(s, c, id, data) ==
    [s EXCEPT ![c] = [x \in DOMAIN @ \cup {id} |->
                         IF x = id
                         THEN IF id \in DOMAIN @ THEN Spread(@[id], data)
                                                 ELSE data
                         ELSE @[x]]]

\* setDoc(docRef, data): the document is replaced by data.
SetDoc(s, c, id, data) ==
    [s EXCEPT ![c] = [x \in DOMAIN @ \cup {id} |->
                         IF x = id THEN data ELSE @[x]]]

\* updateDoc replaced by setDoc: the fields data does not name are lost.
UpdateDocReplacing(s, c, id, data) ==
    [s EXCEPT ![c][id] = data]

\* updateDoc(docRef, data) on an existing document: data's fields overwrite,
\* the others stay.
UpdateDoc(s, c, id, data) ==
    [s EXCEPT ![c][id] = Spread(@, data)]

\* deleteDoc(docRef)
DeleteDoc(s, c, id) ==
    [s EXCEPT ![c] = [x \in DOMAIN @ \ {id} |-> @[x]]]

\* docSnap.exists() and docSnap.data() of getDoc(docRef); data() of a
\* missing document is undefined, which spreads to no field.
Exists(s, c, id) == id \in DOMAIN s[c]
Data(s, c, id) == IF Exists(s, c, id) THEN s[c][id] ELSE EmptyDoc

\* Query constraints: where(field, '==', value), combined conjunctively.
Constraints == {[field |-> "a", value |-> "1"], [field |-> "b", value |-> "2"]}
Matches(d, conds) ==
    \A q \in conds : q.field \in DOMAIN d /\ d[q.field] = q.value

\* getDocs(query(collection, ...conditions)): the matching documents, as
\* document id -> fields. getDocs(collection) is the case of no condition.
GetDocs(s, c, conds) ==
    [x \in {y \in DOMAIN s[c] : Matches(s[c][y], conds)} |-> s[c][x]]

\* querySnapshot.docs.map(doc => ({ id: doc.id, ...doc.data() })): one
\* object per snapshot entry, here keyed by the entry's document id.
MapDocs(snapshot) ==
    [x \in DOMAIN snapshot |-> Spread([id |-> x], snapshot[x])]

-----------------------------------------------------------------------------
(* FirestoreService and FirestoreServiceInstance *)

\* Caller tasks that can each have one update() in flight.
Tasks == {1, 2}

\* The document clients handed out, and the collection a call of client cl
\* addresses: the generic client takes it as an argument, the scoped client
\* uses this.collectionName.
DocClients == {cl \in handedOut : cl.kind # "FirebaseAuthService"}
Addresses(cl, c) ==
    cl.kind = "FirestoreServiceInstance" => c = cl.collectionName

Idle ==
    [busy |-> FALSE, client |-> "", coll |-> "", id |-> "", data |-> EmptyDoc,
     pre |-> EmptyDoc, raced |-> FALSE]

\* What a step delivers: the resolved value (doc for create, read and
\* update, docs for getAll and query; found is FALSE where read resolves to
\* null) or the thrown Error, `${prefix}${cause}`. pre and raced are kept for
\* update: the document before the call's updateDoc, and whether another
\* write to the same document landed between its updateDoc and its getDoc.
NoResult ==
    [client |-> "", op |-> "none", coll |-> "", id |-> "", data |-> EmptyDoc,
     fault |-> NoFault, status |-> "none", error |-> <<>>, found |-> FALSE,
     doc |-> EmptyDoc, docs |-> EmptyDoc, pre |-> EmptyDoc, raced |-> FALSE]

Call(cl, op, c, id, data, fault) ==
    [NoResult EXCEPT !.client = cl.kind, !.op = op, !.coll = c, !.id = id,
                     !.data = data, !.fault = fault]

Resolved(call) == [call EXCEPT !.status = "ok"]
Thrown(call, prefix, cause) ==
    [call EXCEPT !.status = "error", !.error = <<prefix, cause>>,
                 !.data = EmptyDoc, !.pre = EmptyDoc, !.raced = FALSE]

\* A write to document id of collection c lands: every update() in flight on
\* that document, other than task t's, has been raced.
Raced(c, id, t) ==
    [u \in Tasks |->
        IF u # t /\ inflight[u].busy /\ inflight[u].coll = c
                 /\ inflight[u].id = id
        THEN [inflight[u] EXCEPT !.raced = TRUE]
        ELSE inflight[u]]

\* The create-then-read pairs still undisturbed: a successful create enters
\* its record, any other write to the document drops it.
Undisturbed(c, id) ==
    {r \in hist.roundTrip : ~(r.coll = c /\ r.id = id)}

\* create(collectionName, data, customId?)
Create(cl, c, data, customId, fault) ==
    LET id == IF customId = NoId THEN AutoId(genCount + 1) ELSE customId
        call == Call(cl, "create", c, id, data, fault)
    IN  /\ ops < MaxOps
        /\ ops' = ops + 1
        /\ genCount' = IF customId = NoId THEN genCount + 1 ELSE genCount
        /\ IF fault # NoFault
           THEN /\ last' = Thrown(call, "Error creating document: ", fault)
                /\ UNCHANGED <<store, inflight, hist>>
           ELSE /\ store' = SetDoc(store, c, id, data)
                /\ last' = [Resolved(call) EXCEPT
                              !.doc = Spread([id |-> id], data)]
                /\ inflight' = Raced(c, id, 0)
                /\ hist' = [hist EXCEPT
                     !.created[c] = @ \cup {id},
                     !.roundTrip = Undisturbed(c, id) \cup
                        {[coll |-> c, id |-> id, data |-> data,
                          result |-> last'.doc]}]
        /\ UNCHANGED <<lifecycleVars, authVars>>

\* read that treats a missing document as a failure.
ReadThrowingOnMissing(cl, c, id, fault) ==
    LET call == Call(cl, "read", c, id, EmptyDoc, fault)
    IN  /\ ops < MaxOps
        /\ ops' = ops + 1
        /\ IF fault # NoFault
           THEN last' = Thrown(call, "Error reading document: ", fault)
           ELSE IF Exists(store, c, id)
                THEN last' = [Resolved(call) EXCEPT
                                !.found = TRUE, !.doc = Data(store, c, id)]
                ELSE last' = Thrown(call, "Error reading document: ",
                                    "not-found")
        /\ UNCHANGED <<store, genCount, inflight, hist, lifecycleVars, authVars>>

\* read(collectionName, documentId)
Read(cl, c, id, fault) ==
    LET call == Call(cl, "read", c, id, EmptyDoc, fault)
    IN  /\ ops < MaxOps
        /\ ops' = ops + 1
        /\ IF fault # NoFault
           THEN last' = Thrown(call, "Error reading document: ", fault)
           ELSE IF Exists(store, c, id)
                THEN last' = [Resolved(call) EXCEPT
                                !.found = TRUE, !.doc = Data(store, c, id)]
                ELSE last' = Resolved(call)
        /\ UNCHANGED <<store, genCount, inflight, hist, lifecycleVars, authVars>>

\* The task a new update() runs in: task names carry no meaning, so the
\* first one without an update in flight is taken (0: every task is busy).
FreeTask ==
    IF \A t \in Tasks : inflight[t].busy THEN 0
    ELSE CHOOSE t \in Tasks :
            /\ ~inflight[t].busy
            /\ \A u \in Tasks : ~inflight[u].busy => t <= u

\* update whose write resolves without effect on a missing document, so
\* that the call goes on to its re-read.
UpdateWriteIgnoringMissing(t, cl, c, id, data, fault) ==
    LET call == Call(cl, "update", c, id, data, fault)
    IN  /\ ops < MaxOps
        /\ t = FreeTask
        /\ ops' = ops + 1
        /\ IF fault # NoFault
           THEN /\ last' = Thrown(call, "Error updating document: ", fault)
                /\ UNCHANGED <<store, inflight, hist>>
           ELSE /\ store' = IF Exists(store, c, id)
                            THEN UpdateDoc(store, c, id, data) ELSE store
                /\ inflight' =
                     [Raced(c, id, t) EXCEPT ![t] =
                        [busy |-> TRUE, client |-> cl.kind, coll |-> c,
                         id |-> id, data |-> data, pre |-> Data(store, c, id),
                         raced |-> FALSE]]
                /\ hist' = [hist EXCEPT !.roundTrip = Undisturbed(c, id)]
                /\ last' = NoResult
        /\ UNCHANGED <<genCount, lifecycleVars, authVars>>

\* update(collectionName, documentId, data), up to `await updateDoc`:
\* updateDoc rejects on a fault and on a document that does not exist.
UpdateWrite(t, cl, c, id, data, fault) ==
    LET call == Call(cl, "update", c, id, data, fault)
    IN  /\ ops < MaxOps
        /\ t = FreeTask
        /\ ops' = ops + 1
        /\ IF fault # NoFault
           THEN /\ last' = Thrown(call, "Error updating document: ", fault)
                /\ UNCHANGED <<store, inflight, hist>>
           ELSE IF ~Exists(store, c, id)
           THEN /\ last' = Thrown(call, "Error updating document: ",
                                  "not-found")
                /\ UNCHANGED <<store, inflight, hist>>
           ELSE /\ store' = UpdateDoc(store, c, id, data)
                /\ inflight' =
                     [Raced(c, id, t) EXCEPT ![t] =
                        [busy |-> TRUE, client |-> cl.kind, coll |-> c,
                         id |-> id, data |-> data, pre |-> store[c][id],
                         raced |-> FALSE]]
                /\ hist' = [hist EXCEPT !.roundTrip = Undisturbed(c, id)]
                /\ last' = NoResult
        /\ UNCHANGED <<genCount, lifecycleVars, authVars>>

\* update(...), from `await getDoc(docRef)` to its return
UpdateReread(t, fault) ==
    LET u == inflight[t]
        call == [NoResult EXCEPT !.client = u.client, !.op = "update",
                    !.coll = u.coll, !.id = u.id, !.data = u.data,
                    !.fault = fault, !.pre = u.pre, !.raced = u.raced]
    IN  /\ u.busy
        /\ inflight' = [inflight EXCEPT ![t] = Idle]
        /\ IF fault # NoFault
           THEN last' = Thrown(call, "Error updating document: ", fault)
           ELSE last' = [Resolved(call) EXCEPT
                           !.found = Exists(store, u.coll, u.id),
                           !.doc = Spread([id |-> u.id],
                                          Data(store, u.coll, u.id))]
        /\ UNCHANGED <<store, genCount, ops, hist, lifecycleVars, authVars>>

\* delete(collectionName, documentId)
Delete(cl, c, id, fault) ==
    LET call == Call(cl, "delete", c, id, EmptyDoc, fault)
    IN  /\ ops < MaxOps
        /\ ops' = ops + 1
        /\ IF fault # NoFault
           THEN /\ last' = Thrown(call, "Error deleting document: ", fault)
                /\ UNCHANGED <<store, inflight, hist>>
           ELSE /\ store' = DeleteDoc(store, c, id)
                /\ last' = Resolved(call)
                /\ inflight' = Raced(c, id, 0)
                /\ hist' = [hist EXCEPT !.deleted[c] = TRUE,
                                        !.roundTrip = Undisturbed(c, id)]
        /\ UNCHANGED <<genCount, lifecycleVars, authVars>>

\* getAll(collectionName)
GetAll(cl, c, fault) ==
    LET call == Call(cl, "getAll", c, "", EmptyDoc, fault)
    IN  /\ ops < MaxOps
        /\ ops' = ops + 1
        /\ IF fault # NoFault
           THEN last' = Thrown(call, "Error getting all documents: ", fault)
           ELSE last' = [Resolved(call) EXCEPT
                           !.docs = MapDocs(GetDocs(store, c, {}))]
        /\ UNCHANGED <<store, genCount, inflight, hist, lifecycleVars, authVars>>

\* query(collectionName, conditions)
Query(cl, c, conds, fault) ==
    LET call == Call(cl, "query", c, "", EmptyDoc, fault)
    IN  /\ ops < MaxOps
        /\ ops' = ops + 1
        /\ IF fault # NoFault
           THEN last' = Thrown(call, "Error querying documents: ", fault)
           ELSE last' = [Resolved(call) EXCEPT
                           !.docs = MapDocs(GetDocs(store, c, conds))]
        /\ UNCHANGED <<store, genCount, inflight, hist, lifecycleVars, authVars>>

\* The calls of either client, with their arguments drawn by the caller.
DocCreate ==
    \E cl \in DocClients, c \in Collections, data \in Records,
       customId \in CustomIds \cup {NoId}, fault \in Faults \cup {NoFault} :
        Addresses(cl, c) /\ Create(cl, c, data, customId, fault)

DocRead ==
    \E cl \in DocClients, c \in Collections, id \in KnownIds,
       fault \in Faults \cup {NoFault} :
        Addresses(cl, c) /\ Read(cl, c, id, fault)

DocUpdateWrite ==
    \E t \in Tasks, cl \in DocClients, c \in Collections, id \in KnownIds,
       data \in Records, fault \in Faults \cup {NoFault} :
        Addresses(cl, c) /\ UpdateWrite(t, cl, c, id, data, fault)

DocUpdateReread ==
    \E t \in Tasks, fault \in Faults \cup {NoFault} : UpdateReread(t, fault)

DocDelete ==
    \E cl \in DocClients, c \in Collections, id \in KnownIds,
       fault \in Faults \cup {NoFault} :
        Addresses(cl, c) /\ Delete(cl, c, id, fault)

DocGetAll ==
    \E cl \in DocClients, c \in Collections, fault \in Faults \cup {NoFault} :
        Addresses(cl, c) /\ GetAll(cl, c, fault)

DocQuery ==
    \E cl \in DocClients, c \in Collections, conds \in SUBSET Constraints,
       fault \in Faults \cup {NoFault} :
        Addresses(cl, c) /\ Query(cl, c, conds, fault)

StoreInit ==
    /\ store = [c \in Collections |-> EmptyDoc]
    /\ genCount = 0
    /\ inflight = [t \in Tasks |-> Idle]
    /\ last = NoResult
    /\ ops = 0
    /\ hist = [created |-> [c \in Collections |-> {}],
               deleted |-> [c \in Collections |-> FALSE],
               roundTrip |-> {}]

StoreNext ==
    \/ DocCreate
    \/ DocRead
    \/ DocUpdateWrite
    \/ DocUpdateReread
    \/ DocDelete
    \/ DocGetAll
    \/ DocQuery

-----------------------------------------------------------------------------
(* FirebaseAuthService *)

\* Identities the backend can sign in; NoUser is auth.currentUser = null.
Users == {"u1", "u2"}
NoUser == ""

\* this.providers: the keys of the provider map.
Providers == {"google", "facebook", "github", "twitter"}

\* The backend's error codes: the seven handleAuthError names, and one it
\* does not.
KnownCodes ==
    {"auth/email-already-in-use", "auth/invalid-email",
     "auth/operation-not-allowed", "auth/weak-password",
     "auth/user-disabled", "auth/user-not-found", "auth/wrong-password"}
OtherCodes == {"auth/network-request-failed"}

\* The message of the Error the Firebase SDK rejects with for a code.
SdkMessage(code) == "Firebase: Error (" \o code \o ")."

\* What a backend call does: it resolves, or rejects with an Error that
\* carries a code and a message. The message is the backend's: the SDK's
\* text for the code, or the bare code.
Resolves == [rejected |-> FALSE, isError |-> FALSE, code |-> "", message |-> ""]
Rejections ==
    {[rejected |-> TRUE, isError |-> TRUE, code |-> c, message |-> m] :
        c \in KnownCodes \cup OtherCodes, m \in {"bare", "sdk"}}
RejectionOf(r) ==
    [r EXCEPT !.message = IF @ = "sdk" THEN SdkMessage(r.code) ELSE r.code]
Outcomes == {Resolves} \cup {RejectionOf(r) : r \in Rejections}

\* An Error thrown by the service itself, inside its try block.
LocalError(message) ==
    [rejected |-> FALSE, isError |-> TRUE, code |-> "", message |-> message]

\* handleAuthError(error): the message of the Error it returns.
HandleAuthError(error) ==
    IF error.isError
    THEN CASE error.message = "auth/email-already-in-use" ->
                  "This email is already registered"
           [] error.message = "auth/invalid-email" -> "Invalid email format"
           [] error.message = "auth/operation-not-allowed" ->
                  "Operation not allowed"
           [] error.message = "auth/weak-password" -> "Password is too weak"
           [] error.message = "auth/user-disabled" ->
                  "This user account has been disabled"
           [] error.message = "auth/user-not-found" -> "User not found"
           [] error.message = "auth/wrong-password" -> "Invalid password"
           [] OTHER -> error.message
    ELSE "An authentication error occurred"

NoAuthResult ==
    [op |-> "none", status |-> "none", message |-> "", user |-> NoUser,
     cause |-> Resolves, called |-> FALSE]

\* catch (error) { throw this.handleAuthError(error) }
AuthThrown(op, error, called) ==
    [op |-> op, status |-> "error", message |-> HandleAuthError(error),
     user |-> NoUser, cause |-> error, called |-> called]

AuthResolved(op, user) ==
    [op |-> op, status |-> "ok", message |-> "", user |-> user,
     cause |-> Resolves, called |-> TRUE]

\* A FirebaseAuthService has been handed out.
AuthServiceHeld == \E cl \in handedOut : cl.kind = "FirebaseAuthService"

\* The callbacks callers pass to onAuthStateChange.
Callbacks == {"cb1", "cb2"}

\* onAuthStateChanged(auth, callback): the backend calls every callback that
\* is subscribed with the new user (null after sign-out) when the signed-in
\* user changes, once per change.
NotifyAuthListeners(before, after) ==
    [cb \in Callbacks |->
        IF after # before /\ listeners[cb] = "subscribed"
        THEN Append(delivered[cb], after)
        ELSE delivered[cb]]

\* A method whose catch block also signs the user out: a rejected call
\* leaves nobody signed in.
BackendCallSigningOutOnFailure(op, outcome, user) ==
    /\ AuthServiceHeld
    /\ authOps < MaxAuthOps
    /\ authOps' = authOps + 1
    /\ backendCalls' = backendCalls + 1
    /\ IF outcome.rejected
       THEN /\ authLast' = AuthThrown(op, outcome, TRUE)
            /\ currentUser' = NoUser
            /\ delivered' = NotifyAuthListeners(currentUser, NoUser)
       ELSE /\ authLast' = AuthResolved(op, user)
            /\ currentUser' = user
            /\ delivered' = NotifyAuthListeners(currentUser, user)
    /\ UNCHANGED <<listeners, lifecycleVars, storeVars>>

\* A method that awaits one backend call: the call's rejection goes through
\* handleAuthError; when it resolves, auth.currentUser becomes user and the
\* backend tells the subscribed callbacks if that is a change.
BackendCall(op, outcome, user) ==
    /\ AuthServiceHeld
    /\ authOps < MaxAuthOps
    /\ authOps' = authOps + 1
    /\ backendCalls' = backendCalls + 1
    /\ IF outcome.rejected
       THEN /\ authLast' = AuthThrown(op, outcome, TRUE)
            /\ UNCHANGED <<currentUser, delivered>>
       ELSE /\ authLast' = AuthResolved(op, user)
            /\ currentUser' = user
            /\ delivered' = NotifyAuthListeners(currentUser, user)
    /\ UNCHANGED <<listeners, lifecycleVars, storeVars>>

\* A method that throws before it reaches the backend.
LocalThrow(op, message) ==
    /\ AuthServiceHeld
    /\ authOps < MaxAuthOps
    /\ authOps' = authOps + 1
    /\ authLast' = AuthThrown(op, LocalError(message), FALSE)
    /\ UNCHANGED <<currentUser, backendCalls, listeners, delivered,
                   lifecycleVars, storeVars>>

\* registerWithEmail(email, password): createUserWithEmailAndPassword signs
\* the new user in.
RegisterWithEmail ==
    \E outcome \in Outcomes, user \in Users :
        BackendCall("registerWithEmail", outcome, user)

\* loginWithEmail(email, password)
LoginWithEmail ==
    \E outcome \in Outcomes, user \in Users :
        BackendCall("loginWithEmail", outcome, user)

\* What a caller can pass as providerType: the four keys and, past the type
\* checker, any other string.
ProviderTypes == Providers \cup {"unknown"}

\* loginWithProvider without the `if (!provider) throw`: signInWithPopup is
\* reached whatever providers.get returned.
LoginWithProviderUnchecked(providerType) ==
    \E outcome \in Outcomes, user \in Users :
        BackendCall("loginWithProvider", outcome, user)

\* loginWithProvider(providerType): providers.get(providerType) is undefined
\* for a string that is not a key of the map.
LoginWithProviderOf(providerType) ==
    IF providerType \notin Providers
    THEN LocalThrow("loginWithProvider",
                    "Provider " \o providerType \o " not supported")
    ELSE \E outcome \in Outcomes, user \in Users :
             BackendCall("loginWithProvider", outcome, user)

LoginWithProvider ==
    \E providerType \in ProviderTypes : LoginWithProviderOf(providerType)

\* logout()
Logout ==
    \E outcome \in Outcomes : BackendCall("logout", outcome, NoUser)

\* resetPassword(email)
ResetPassword ==
    \E outcome \in Outcomes :
        BackendCall("resetPassword", outcome, currentUser)

\* The same four methods without the `if (!user) throw`: the backend
\* function is called with whatever auth.currentUser is.
OnCurrentUserUnchecked(op) ==
    \E outcome \in Outcomes : BackendCall(op, outcome, currentUser)

\* sendVerificationEmail, updateUserProfile, updateUserEmail and
\* updateUserPassword: `if (!user) throw new Error(...)`, then one backend
\* call on the user.
OnCurrentUser(op) ==
    IF currentUser = NoUser
    THEN LocalThrow(op, "No user is currently signed in")
    ELSE \E outcome \in Outcomes : BackendCall(op, outcome, currentUser)

SendVerificationEmail == OnCurrentUser("sendVerificationEmail")
UpdateUserProfile == OnCurrentUser("updateUserProfile")
UpdateUserEmail == OnCurrentUser("updateUserEmail")
UpdateUserPassword == OnCurrentUser("updateUserPassword")

\* getCurrentUser()
GetCurrentUser ==
    /\ AuthServiceHeld
    /\ authOps < MaxAuthOps
    /\ authOps' = authOps + 1
    /\ authLast' = [NoAuthResult EXCEPT !.op = "getCurrentUser",
                       !.status = "ok", !.user = currentUser]
    /\ UNCHANGED <<currentUser, backendCalls, listeners, delivered,
                   lifecycleVars, storeVars>>

\* onAuthStateChange(callback): onAuthStateChanged subscribes the callback
\* and calls it with the current user.
OnAuthStateChange ==
    \E cb \in Callbacks :
        /\ AuthServiceHeld
        /\ listeners[cb] = "never"
        /\ listeners' = [listeners EXCEPT ![cb] = "subscribed"]
        /\ delivered' = [delivered EXCEPT ![cb] = Append(@, currentUser)]
        /\ UNCHANGED <<currentUser, authLast, authOps, backendCalls,
                       lifecycleVars, storeVars>>

\* The function onAuthStateChange returned, called by the subscriber.
Unsubscribe ==
    \E cb \in Callbacks :
        /\ listeners[cb] = "subscribed"
        /\ listeners' = [listeners EXCEPT ![cb] = "unsubscribed"]
        /\ UNCHANGED <<currentUser, authLast, authOps, backendCalls,
                       delivered, lifecycleVars, storeVars>>

AuthInit ==
    /\ currentUser = NoUser
    /\ authLast = NoAuthResult
    /\ authOps = 0
    /\ backendCalls = 0
    /\ listeners = [cb \in Callbacks |-> "never"]
    /\ delivered = [cb \in Callbacks |-> <<>>]

AuthNext ==
    \/ RegisterWithEmail
    \/ LoginWithEmail
    \/ LoginWithProvider
    \/ Logout
    \/ ResetPassword
    \/ SendVerificationEmail
    \/ UpdateUserProfile
    \/ UpdateUserEmail
    \/ UpdateUserPassword
    \/ GetCurrentUser

\* The calls that sign a user in or out, and the subscriptions to that.
SessionNext ==
    \/ RegisterWithEmail
    \/ LoginWithEmail
    \/ LoginWithProvider
    \/ Logout
    \/ OnAuthStateChange
    \/ Unsubscribe

\* The application after initializeFirebaseLib(config) returned and the
\* caller took the generic client, a client scoped to "users" and the auth
\* service.
ClientsReady ==
    /\ StoreInit
    /\ AuthInit
    /\ instance = [oid |-> 1, app |-> 1, db |-> 1, auth |-> 1,
                   analytics |-> 1, firestoreService |-> 1, authService |-> 1]
    /\ created = [app |-> 1, db |-> 1, auth |-> 1, analytics |-> 1]
    /\ nextOid = 1
    /\ held = {instance}
    /\ handedOut =
         {[kind |-> "FirestoreService", of |-> 1, handle |-> 1,
           collectionName |-> ""]}
         \cup {[kind |-> "FirestoreServiceInstance", of |-> 1, handle |-> 1,
                collectionName |-> "users"]}
         \cup {[kind |-> "FirebaseAuthService", of |-> 1, handle |-> 1,
                collectionName |-> ""]}
    /\ lcLog = <<LcEntry("initializeFirebaseLib", "configA", 0, "ok", 1, "")>>

-----------------------------------------------------------------------------
(* Specifications *)

Init == LifecycleInit /\ StoreInit /\ AuthInit

Next == LifecycleNext \/ StoreNext \/ AuthNext \/ SessionNext

\* The whole library.
Spec == Init /\ [][Next]_vars

\* FirebaseInit alone, from process start.
SpecLifecycle == Init /\ [][LifecycleNext]_vars

\* The document clients against the remote store, once they are handed out.
SpecStore == ClientsReady /\ [][StoreNext]_vars

\* The auth service against the identity backend, once it is handed out.
SpecAuth == ClientsReady /\ [][AuthNext]_vars

\* The session of the auth service as its subscribers see it.
SpecSession == ClientsReady /\ [][SessionNext]_vars

-----------------------------------------------------------------------------
(* Properties of FirebaseInit, checked under SpecLifecycle *)

ConfigRequiredMessage == "Firebase config is required for initialization"

\* C1 (singleton identity): once a call to getInstance or
\* initializeFirebaseLib has returned an instance, every later call, whatever
\* configuration it is given, returns and returns that same instance; callers
\* never hold two different instances.
C1_SingletonIdentity ==
    /\ \A i, j \in 1..Len(lcLog) :
          (i < j /\ lcLog[i].status = "ok") =>
              (lcLog[j].status = "ok" /\ lcLog[j].oid = lcLog[i].oid)
    /\ Cardinality(held) <= 1

\* A first call built the instance; a later call without configuration and
\* a later call through initializeFirebaseLib with another configuration
\* returned it.
C1_Witness ==
    /\ Len(lcLog) >= 3
    /\ lcLog[1].status = "ok"
    /\ \E j \in 2..Len(lcLog) :
          /\ lcLog[j].op = "initializeFirebaseLib"
          /\ lcLog[j].cfg # lcLog[1].cfg
          /\ lcLog[j].oid = lcLog[1].oid
    /\ \E j \in 2..Len(lcLog) :
          lcLog[j].cfg = NoConfig /\ lcLog[j].oid = lcLog[1].oid

\* C2 (handles created once): over any sequence of getInstance calls, failed
\* ones included, each of the four handles is created at most once, exactly
\* once when the instance exists, and every client handed out is built on the
\* instance's handles.
C2_HandlesCreatedOnce ==
    /\ \A h \in DOMAIN created : created[h] <= 1
    /\ instance.oid # 0 => \A h \in DOMAIN created : created[h] = 1
    /\ \A c \in handedOut :
          /\ c.of = instance.oid
          /\ c.handle = IF c.kind = "FirebaseAuthService"
                        THEN instance.auth ELSE instance.db

\* C3 (missing configuration): a call without configuration while no instance
\* exists fails with the configuration error, creates no handle and leaves
\* the static field unset; a later call that carries a configuration, and
\* whose constructor does not throw, still constructs the instance.
C3_MissingConfigFails ==
    /\ [][(/\ Len(lcLog') = Len(lcLog) + 1
           /\ instance.oid = 0
           /\ lcLog'[Len(lcLog')].cfg = NoConfig)
          => (/\ lcLog'[Len(lcLog')].status = "error"
              /\ lcLog'[Len(lcLog')].message = ConfigRequiredMessage
              /\ created' = created
              /\ nextOid' = nextOid
              /\ held' = held
              /\ instance' = NoInstance)]_vars
    /\ [](\A i, j \in 1..Len(lcLog) :
            (/\ i < j
             /\ lcLog[i].message = ConfigRequiredMessage
             /\ lcLog[j].cfg # NoConfig
             /\ lcLog[j].failAt = 0)
            => (lcLog[j].status = "ok" /\ lcLog[j].oid = instance.oid
                /\ instance.oid # 0))

\* A call without configuration failed, and the next call, with one,
\* constructed the instance.
C3_Witness ==
    /\ Len(lcLog) >= 2
    /\ lcLog[1].cfg = NoConfig /\ lcLog[1].status = "error"
    /\ lcLog[2].cfg # NoConfig /\ lcLog[2].status = "ok"
    /\ instance.oid = lcLog[2].oid
    /\ \A h \in DOMAIN created : created[h] = 1

-----------------------------------------------------------------------------
(* Properties of the document clients, checked under SpecStore *)

\* A document without its "id" field.
WithoutId(d) == [f \in DOMAIN d \ {"id"} |-> d[f]]

\* C4 (read of a missing document): read throws exactly when the backend
\* get fails; when the get succeeds and the identifier has no document, read
\* resolves to null (found = FALSE, no fields), whichever client is used.
C4_ReadAbsentIsNull ==
    last.op = "read" =>
        /\ last.status = "error" <=> last.fault # NoFault
        /\ last.status = "error" =>
              last.error = <<"Error reading document: ", last.fault>>
        /\ (last.fault = NoFault /\ ~Exists(store, last.coll, last.id)) =>
              (last.status = "ok" /\ ~last.found /\ last.doc = EmptyDoc)
        /\ (last.fault = NoFault /\ Exists(store, last.coll, last.id)) =>
              (last.found /\ last.doc = store[last.coll][last.id])

\* The scoped client read an identifier that has no document while the
\* collection holds another document, and resolved to null.
C4_Witness ==
    /\ last.op = "read" /\ last.client = "FirestoreServiceInstance"
    /\ last.status = "ok" /\ ~last.found
    /\ ~Exists(store, last.coll, last.id)
    /\ DOMAIN store[last.coll] # {}

C6_ReturnedIdIsStoredId ==
    /\ (last.status = "ok" /\ last.op \in {"create", "update"}) =>
          last.doc.id = last.id
    /\ (last.status = "ok" /\ last.op \in {"getAll", "query"}) =>
          \A x \in DOMAIN last.docs : last.docs[x].id = x

UpdateStarts(c, id) ==
    /\ ops' = ops + 1
    /\ \/ last'.op = "update" /\ last'.coll = c /\ last'.id = id
       \/ \E t \in Tasks :
             /\ ~inflight[t].busy /\ inflight'[t].busy
             /\ inflight'[t].coll = c /\ inflight'[t].id = id

\* C8 (update of a missing document): when update(c, id, partialData)
\* reaches a backend that is up and id has no document, either the call
\* fails with the backend's not-found error and the store is unchanged, or
\* the document now exists with exactly the fields of partialData and
\* nothing else changed; the call is never left to return successfully with
\* no document under id.
C8_UpdateMissing ==
    [][\A c \in Collections, id \in KnownIds :
          (/\ UpdateStarts(c, id)
           /\ ~Exists(store, c, id)
           /\ last'.fault = NoFault)
          => \/ /\ last'.status = "error"
                /\ last'.error = <<"Error updating document: ", "not-found">>
                /\ store' = store
                /\ \A t \in Tasks : ~inflight'[t].busy \/ inflight[t].busy
             \/ /\ \E t \in Tasks :
                      /\ ~inflight[t].busy /\ inflight'[t].busy
                      /\ Exists(store', c, id)
                      /\ store'[c][id] = inflight'[t].data
                /\ \A d \in Collections : \A x \in DOMAIN store[d] :
                      Exists(store', d, x) /\ store'[d][x] = store[d][x]]_vars

\* update was called on an identifier without a document, in a collection
\* that holds another document, and threw the not-found error.
C8_Witness ==
    /\ last.op = "update" /\ last.status = "error"
    /\ last.error = <<"Error updating document: ", "not-found">>
    /\ ~Exists(store, last.coll, last.id)
    /\ DOMAIN store[last.coll] # {}

\* C9 (getAll completeness): in a collection where N distinct documents
\* were created and none deleted, getAll returns N documents and no two of
\* them carry the same id.
C9_GetAllComplete ==
    (last.op = "getAll" /\ last.status = "ok" /\ ~hist.deleted[last.coll]) =>
        /\ Cardinality(DOMAIN last.docs) =
              Cardinality(hist.created[last.coll])
        /\ \A x, y \in DOMAIN last.docs :
              x # y => last.docs[x].id # last.docs[y].id

-----------------------------------------------------------------------------
(* Properties of the auth service, checked under SpecAuth *)

\* The normalization table: backend code -> stable message.
MessageOfCode ==
    [c \in KnownCodes |->
        CASE c = "auth/email-already-in-use" -> "This email is already registered"
          [] c = "auth/invalid-email" -> "Invalid email format"
          [] c = "auth/operation-not-allowed" -> "Operation not allowed"
          [] c = "auth/weak-password" -> "Password is too weak"
          [] c = "auth/user-disabled" -> "This user account has been disabled"
          [] c = "auth/user-not-found" -> "User not found"
          [] c = "auth/wrong-password" -> "Invalid password"]

\* C10 (auth error mapping): when a backend call of any FirebaseAuthService
\* method rejects with one of the seven known codes, the method throws an
\* error whose message is the table's message for that code; when it rejects
\* with another code, the thrown message is the backend's message.
C10_AuthErrorMapping ==
    (authLast.status = "error" /\ authLast.cause.rejected) =>
        IF authLast.cause.code \in KnownCodes
        THEN authLast.message = MessageOfCode[authLast.cause.code]
        ELSE authLast.message = authLast.cause.message

\* C11 (unsupported provider): every loginWithProvider call with an
\* identifier that is not one of google, facebook, github, twitter throws,
\* the thrown Error names the unsupported provider and its message is one no
\* backend rejection can come out of handleAuthError with, no call reaches
\* the auth backend, and auth.currentUser is what it was.
UnsupportedProviderMessage(providerType) ==
    "Provider " \o providerType \o " not supported"

AuthErrorMessages == {HandleAuthError(o) : o \in Outcomes \ {Resolves}}

C11_UnsupportedProvider ==
    [][\A providerType \in ProviderTypes \ Providers :
          LoginWithProviderOf(providerType) =>
              /\ authLast'.op = "loginWithProvider"
              /\ authLast'.status = "error"
              /\ authLast'.message = UnsupportedProviderMessage(providerType)
              /\ authLast'.message \notin AuthErrorMessages
              /\ ~authLast'.called
              /\ backendCalls' = backendCalls
              /\ currentUser' = currentUser]_vars

\* An unsupported provider was refused while a user was signed in, and the
\* user is still signed in.
C11_Witness ==
    /\ authLast.op = "loginWithProvider"
    /\ authLast.status = "error"
    /\ authLast.message = UnsupportedProviderMessage("unknown")
    /\ backendCalls = 1
    /\ currentUser \in Users

\* C12 (operations on the current user): sendVerificationEmail,
\* updateUserProfile, updateUserEmail and updateUserPassword, called while
\* auth.currentUser is null, throw "No user is currently signed in" without
\* a call to the auth backend; called while a user is signed in they make
\* one backend call on that user, and they throw only when that call
\* rejected, with what handleAuthError makes of the rejection.
CurrentUserOps ==
    {"sendVerificationEmail", "updateUserProfile", "updateUserEmail",
     "updateUserPassword"}

NoSessionMessage == "No user is currently signed in"

C12_CurrentUserRequired ==
    [][\A op \in CurrentUserOps :
          OnCurrentUser(op) =>
              /\ authLast'.op = op
              /\ currentUser' = currentUser
              /\ IF currentUser = NoUser
                 THEN /\ authLast'.status = "error"
                      /\ authLast'.message = NoSessionMessage
                      /\ authLast'.message \notin AuthErrorMessages
                      /\ ~authLast'.called
                      /\ backendCalls' = backendCalls
                 ELSE /\ authLast'.called
                      /\ backendCalls' = backendCalls + 1
                      /\ authLast'.status = "ok" => authLast'.user = currentUser
                      /\ authLast'.status = "error" =>
                             /\ authLast'.cause.rejected
                             /\ authLast'.message =
                                    HandleAuthError(authLast'.cause)]_vars

\* One of the four methods was refused because nobody is signed in, and
\* the backend has not been called.
C12_Witness ==
    /\ authLast.op \in CurrentUserOps
    /\ authLast.status = "error"
    /\ authLast.message = NoSessionMessage
    /\ ~authLast.called
    /\ currentUser = NoUser
    /\ backendCalls = 0

-----------------------------------------------------------------------------
(* Concurrent calls on one document, checked under SpecStore *)

\* C14 (update under concurrent writers): whenever update(id, partialData)
\* returns, whatever other create, update or delete landed on the document
\* between its updateDoc and its getDoc, the returned document is the one
\* its own write left: it has every field of partialData with the value
\* written and every other field the document had before with its old
\* value.
C14_UpdateReturnsOwnWrite ==
    (last.op = "update" /\ last.status = "ok") =>
        LET F == last.pre
            partialData == last.data
        IN  /\ \A f \in DOMAIN partialData :
                   f \in DOMAIN last.doc /\ last.doc[f] = partialData[f]
            /\ \A f \in DOMAIN F \ DOMAIN partialData :
                   f \in DOMAIN last.doc /\ last.doc[f] = F[f]

-----------------------------------------------------------------------------
(* Properties of the session, checked under SpecSession *)

\* The step is a call of op that has returned or thrown.
SessionStep(op) == authOps' = authOps + 1 /\ authLast'.op = op

\* Every subscribed callback is called once more, with user, and no other
\* callback is called.
NotifiedOnce(user) ==
    \A cb \in Callbacks :
        delivered'[cb] = IF listeners[cb] = "subscribed"
                         THEN Append(delivered[cb], user)
                         ELSE delivered[cb]

\* C13 (session transitions): a loginWithEmail that resolves while nobody is
\* signed in leaves its user signed in and every subscribed callback is
\* called exactly once, with that user; a logout that resolves while a user
\* is signed in leaves nobody signed in and every subscribed callback is
\* called exactly once, with null; a registerWithEmail, loginWithEmail or
\* loginWithProvider that throws leaves auth.currentUser as it was and no
\* callback is called.
C13_SessionTransitions ==
    [][/\ (SessionStep("loginWithEmail") /\ authLast'.status = "ok"
               /\ currentUser = NoUser) =>
              /\ currentUser' \in Users
              /\ currentUser' = authLast'.user
              /\ NotifiedOnce(currentUser')
       /\ (SessionStep("logout") /\ authLast'.status = "ok"
               /\ currentUser \in Users) =>
              /\ currentUser' = NoUser
              /\ NotifiedOnce(NoUser)
       /\ ((\E op \in {"registerWithEmail", "loginWithEmail",
                        "loginWithProvider"} : SessionStep(op))
               /\ authLast'.status = "error") =>
              /\ currentUser' = currentUser
              /\ delivered' = delivered]_vars

\* Two callbacks subscribed while nobody was signed in, a user signed in and
\* out again: each callback was called with null at subscription, then once
\* with the user, then once with null.
C13_Witness ==
    /\ authLast.op = "logout"
    /\ authLast.status = "ok"
    /\ currentUser = NoUser
    /\ \E u \in Users :
          \A cb \in Callbacks :
              /\ listeners[cb] = "subscribed"
              /\ delivered[cb] = <<NoUser, u, NoUser>>

=============================================================================
